---- MODULE Spec2Model ----
(***************************************************************************)
(* The Intcode computer of the Advent of Code 2019 solutions.              *)
(*                                                                         *)
(* Two variants of class IntcodeComputer are modelled side by side:        *)
(*   kind = "dict" : src/python/year_2019/intcode.py (memory is a dict)    *)
(*   kind = "list" : src/2019/intcode.py (program list plus extra_memory)  *)
(*                                                                         *)
(* A machine is a record holding the fields of one IntcodeComputer object, *)
(* the position of the host inside run() (pc) and the outcome of the last  *)
(* run() call that returned (result).  Every method is an operator from machine records  *)
(* to machine records, so several instances can be driven by one host.     *)
(* A Python exception that leaves run() is recorded as a result of type    *)
(* "Fault" carrying the exception class and the place that raised it.      *)
(***************************************************************************)
EXTENDS Integers, Sequences, FiniteSets, TLC

\* vm:   the instance driven by a host on its own
\* pair: two instances built by one caller, and the caller's inputs list
\* ring: the five amplifiers of max_signal and the variables of its loop
\* game: the variables of play, the host loop of the arcade game, and its computer
\* standalone: the variables of execute_intcode, the loop without a class
VARIABLES vm, pair, ring, game, standalone

vars == <<vm, pair, ring, game, standalone>>

(***************************************************************************)
(* Bounds of the model.                                                    *)
(***************************************************************************)
\* Instructions one instance may execute over its whole life.
MaxSteps == 12
\* Instructions one amplifier, or one instance of a pair, may execute.
MaxCallSteps == 12
\* Instructions the self-replicating program may execute (it halts after 80).
MaxQuineSteps == 82
\* Longest input queue the host builds with append_inputs.
MaxQueue == 2
\* Number of reset() calls the host makes.
MaxResets == 1

(***************************************************************************)
(* Python helpers.                                                         *)
(***************************************************************************)
Abs(x) == IF x < 0 THEN -x ELSE x

RECURSIVE NumDigits(_)
\* len(str(n)) for n >= 0
NumDigits(n) == IF n < 10 THEN 1 ELSE 1 + NumDigits(n \div 10)

RECURSIVE Pow10(_)
Pow10(i) == IF i = 0 THEN 1 ELSE 10 * Pow10(i - 1)

\* The decimal digit of n >= 0 at place i (place 0 is the last character of str(n)).
DigitAt(n, i) == (n \div Pow10(i)) % 10

Max2(a, b) == IF a >= b THEN a ELSE b

\* dict.get(key, 0)
DictGet(d, key) == IF key \in DOMAIN d THEN d[key] ELSE 0

\* d[key] = value
DictSet(d, key, value) ==
    [k \in (DOMAIN d) \cup {key} |-> IF k = key THEN value ELSE d[k]]

\* {index: value for index, value in enumerate(program)}
Enumerate(program) == [k \in 0..(Len(program) - 1) |-> program[k + 1]]

\* lst[i] is defined for -len(lst) <= i < len(lst); a negative i counts from the end.
PyIndexOK(lst, i) == (-Len(lst) <= i) /\ (i < Len(lst))

PyIndex(lst, i) == lst[(IF i < 0 THEN i + Len(lst) ELSE i) + 1]

PySetItem(lst, i, value) ==
    [lst EXCEPT ![(IF i < 0 THEN i + Len(lst) ELSE i) + 1] = value]

\* A slice bound as Python normalises it: negative counts from the end, then clamped.
PyClamp(lst, i) ==
    LET j == IF i < 0 THEN i + Len(lst) ELSE i
    IN  IF j < 0 THEN 0 ELSE IF j > Len(lst) THEN Len(lst) ELSE j

\* lst[start:stop]
PySlice(lst, start, stop) ==
    LET s == PyClamp(lst, start)
        e == PyClamp(lst, stop)
    IN  IF s >= e THEN <<>> ELSE [k \in 1..(e - s) |-> lst[s + k]]

(***************************************************************************)
(* Outcomes of run() and of the helpers that can raise.                    *)
(***************************************************************************)
NoError == [kind |-> "none", site |-> "none", addr |-> 0]

Raise(kind, site, addr) == [kind |-> kind, site |-> site, addr |-> addr]

Result(type, value, list, err) ==
    [type |-> type, value |-> value, list |-> list, err |-> err]

\* Before the first run() call.
ResultNotRun == Result("NotRun", 0, <<>>, NoError)
\* run() returned None.
ResultNone == Result("None", 0, <<>>, NoError)
\* run() returned self.sentinel_return.
ResultSentinel == Result("Sentinel", 0, <<>>, NoError)
\* run() returned the value of an output instruction.
ResultOutput(v) == Result("Output", v, <<>>, NoError)
\* run() returned the list of gathered outputs.
ResultOutputs(list) == Result("Outputs", 0, list, NoError)
\* run() was left by an exception.
ResultFault(err) == Result("Fault", 0, <<>>, err)

(***************************************************************************)
(* Construction.                                                           *)
(***************************************************************************)
\* amp_phase is None, or an integer.
NoPhase == [given |-> FALSE, value |-> 0]

Phase(v) == [given |-> TRUE, value |-> v]

\* inputs after "if amp_phase is not None: inputs.insert(0, amp_phase)"
InsertPhase(inputs, amp_phase) ==
    IF amp_phase.given THEN <<amp_phase.value>> \o inputs ELSE inputs

\* IntcodeComputer(program, inputs, amp_phase, return_before_input=..,
\* return_output=.., gather_output=..) of the dictionary-backed class.  amp_phase
\* records the argument; the class itself keeps it in the input queue only.
NewDict(program, inputs, amp_phase, return_before_input, return_output, gather_output) ==
    [ kind                |-> "dict",
      amp_phase           |-> amp_phase,
      return_before_input |-> return_before_input,
      return_output       |-> return_output,
      gather_output       |-> gather_output,
      returned            |-> FALSE,
      pointer             |-> 0,
      outputs             |-> <<>>,
      relative_base       |-> 0,
      inputs              |-> InsertPhase(inputs, amp_phase),
      memory              |-> Enumerate(program),
      program             |-> <<>>,
      program_length      |-> 0,
      extra_memory        |-> <<>>,
      original_program    |-> Enumerate(program),
      original_inputs     |-> InsertPhase(inputs, amp_phase),
      pc                  |-> "idle",
      result              |-> ResultNotRun,
      emitted             |-> <<>>,
      delivered           |-> <<>>,
      starved             |-> FALSE,
      steps               |-> 0,
      resets              |-> 0 ]

\* IntcodeComputer(program, inputs, amp_phase, return_output=..) of the list-backed
\* class: it has no return_before_input option and always gathers its outputs.
NewList(program, inputs, amp_phase, return_output) ==
    [ kind                |-> "list",
      amp_phase           |-> amp_phase,
      return_before_input |-> FALSE,
      return_output       |-> (amp_phase.given \/ return_output),
      gather_output       |-> TRUE,
      returned            |-> FALSE,
      pointer             |-> 0,
      outputs             |-> <<>>,
      relative_base       |-> 0,
      inputs              |-> InsertPhase(inputs, amp_phase),
      memory              |-> <<>>,
      program             |-> program,
      program_length      |-> Len(program),
      extra_memory        |-> <<>>,
      original_program    |-> program,
      original_inputs     |-> InsertPhase(inputs, amp_phase),
      pc                  |-> "idle",
      result              |-> ResultNotRun,
      emitted             |-> <<>>,
      delivered           |-> <<>>,
      starved             |-> FALSE,
      steps               |-> 0,
      resets              |-> 0 ]

(***************************************************************************)
(* Fetch and decode.                                                       *)
(***************************************************************************)
\* What the property "value" raises: a missing key of the dict (KeyError), an index
\* outside the list (IndexError).
ValueRaises(m) ==
    IF m.kind = "dict"
    THEN IF m.pointer \in DOMAIN m.memory THEN NoError
         ELSE Raise("KeyError", "value", m.pointer)
    ELSE IF PyIndexOK(m.program, m.pointer) THEN NoError
         ELSE Raise("IndexError", "value", m.pointer)

\* The property "value": the word at the current pointer.
Value(m) ==
    IF m.kind = "dict" THEN m.memory[m.pointer] ELSE PyIndex(m.program, m.pointer)

\* halted() comparing the word with the string "99": never true.
Halted_StringCompare(m) == FALSE

\* halted(): self.value == 99
Halted(m) == Value(m) = 99

\* current_code(): str(self.value)[-1], the last decimal digit of the word.
CurrentCode(m) == Abs(Value(m)) % 10

\* The keys among pointer+1 .. pointer+param_qty that the dict does not hold.
MissingKeys(m, param_qty) ==
    {k \in (m.pointer + 1)..(m.pointer + param_qty) : k \notin DOMAIN m.memory}

SetMin(S) == CHOOSE k \in S : \A j \in S : k <= j

\* The parameter words following the pointer: in the dict a missing key raises,
\* in the list the slice is silently cut at the end of the program.
Parameters(m, param_qty) ==
    IF m.kind = "list"
    THEN [err |-> NoError,
          list |-> PySlice(m.program, m.pointer + 1, m.pointer + param_qty + 1)]
    ELSE IF MissingKeys(m, param_qty) = {}
    THEN [err |-> NoError, list |-> [i \in 1..param_qty |-> m.memory[m.pointer + i]]]
    ELSE [err |-> Raise("KeyError", "parameter", SetMin(MissingKeys(m, param_qty))),
          list |-> <<>>]

\* [int(i) for i in str(value).zfill(param_qty + 2)[-3::-1]]: every character above
\* the last two, last first.  The sign of a negative word is one of them and
\* int("-") raises ValueError.
ParametersMode(value, param_qty) ==
    IF value < 0
    THEN [err |-> Raise("ValueError", "mode", value), list |-> <<>>]
    ELSE [err |-> NoError,
          list |-> [i \in 1..(Max2(NumDigits(value), param_qty + 2) - 2) |->
                      DigitAt(value, i + 1)]]

\* The tuple of the parameters followed by their modes, unpacked into param_qty parameters and
\* param_qty modes ("p1, p1_mode = ...").
Unpack(ps, ms, param_qty) ==
    IF ps.err.kind # "none" THEN [err |-> ps.err, tuple |-> <<>>]
    ELSE IF ms.err.kind # "none" THEN [err |-> ms.err, tuple |-> <<>>]
    ELSE IF Len(ps.list) + Len(ms.list) # 2 * param_qty
    THEN [err |-> Raise("ValueError", "unpack", Len(ps.list) + Len(ms.list)),
          tuple |-> <<>>]
    ELSE [err |-> NoError, tuple |-> ps.list \o ms.list]

\* _param_val_and_mode(param_qty) and the unpacking of its result.
ParamValAndMode(m, param_qty) ==
    Unpack(Parameters(m, param_qty), ParametersMode(Value(m), param_qty), param_qty)

(***************************************************************************)
(* Memory access.                                                          *)
(***************************************************************************)
\* memory_index of _value_for_mode and _store_in_memory
MemoryIndex(m, index, mode) ==
    IF mode = 2 THEN m.relative_base + index ELSE index

\* The read of the list-backed class: extra_memory beyond program_length, else the
\* program list.
ListRead(m, memory_index) ==
    IF memory_index > m.program_length
    THEN [err |-> NoError, value |-> DictGet(m.extra_memory, memory_index)]
    ELSE IF PyIndexOK(m.program, memory_index)
    THEN [err |-> NoError, value |-> PyIndex(m.program, memory_index)]
    ELSE [err |-> Raise("IndexError", "read", memory_index), value |-> 0]

\* _value_for_mode without the immediate branch: every operand is read from memory.
ValueForMode_NoImmediate(m, param, mode) ==
    IF m.kind = "dict"
    THEN [err |-> NoError, value |-> DictGet(m.memory, MemoryIndex(m, param, mode))]
    ELSE ListRead(m, MemoryIndex(m, param, mode))

\* _value_for_mode(param, mode).  The dict-backed class treats every mode other than
\* 1 and 2 as position mode; the list-backed class leaves memory_index unbound.
ValueForMode(m, param, mode) ==
    IF mode = 1 THEN [err |-> NoError, value |-> param]
    ELSE IF m.kind = "dict"
    THEN [err |-> NoError, value |-> DictGet(m.memory, MemoryIndex(m, param, mode))]
    ELSE IF mode \notin {0, 2}
    THEN [err |-> Raise("UnboundLocalError", "read", param), value |-> 0]
    ELSE ListRead(m, MemoryIndex(m, param, mode))

\* The write of the list-backed class.
ListWrite(m, memory_index, value) ==
    IF memory_index > m.program_length
    THEN [err |-> NoError,
          m |-> [m EXCEPT !.extra_memory = DictSet(m.extra_memory, memory_index, value)]]
    ELSE IF PyIndexOK(m.program, memory_index)
    THEN [err |-> NoError,
          m |-> [m EXCEPT !.program = PySetItem(m.program, memory_index, value)]]
    ELSE [err |-> Raise("IndexError", "write", memory_index), m |-> m]

\* _store_in_memory(index, mode, value)
StoreInMemory(m, index, mode, value) ==
    IF m.kind = "dict"
    THEN [err |-> NoError,
          m |-> [m EXCEPT !.memory =
                              DictSet(m.memory, MemoryIndex(m, index, mode), value)]]
    ELSE ListWrite(m, MemoryIndex(m, index, mode), value)

(***************************************************************************)
(* Instruction handlers.  Each yields the machine after the handler, the   *)
(* handler's return value (ret.has is FALSE for None) and the exception    *)
(* that left it, if any.  A handler is split at the statements that can    *)
(* raise: decode, operand reads, store.                                    *)
(***************************************************************************)
RetNone == [has |-> FALSE, value |-> 0]

Ret(v) == [has |-> TRUE, value |-> v]

Done(m, ret) == [err |-> NoError, m |-> m, ret |-> ret]

Raised(err, m) == [err |-> err, m |-> m, ret |-> RetNone]

\* int(v1 < v2), int(v1 == v2)
BoolInt(b) == IF b THEN 1 ELSE 0

\* The handler of code 2 written with "+" where the class has "*".
Arith_MultiplyAdds(code, v1, v2) ==
    CASE code \in {1, 2} -> v1 + v2
      [] code = 7 -> BoolInt(v1 < v2)
      [] code = 8 -> BoolInt(v1 = v2)

\* The handlers of codes 1, 2, 7 and 8 differ in the value they store only.
Arith(code, v1, v2) ==
    CASE code = 1 -> v1 + v2
      [] code = 2 -> v1 * v2
      [] code = 7 -> BoolInt(v1 < v2)
      [] code = 8 -> BoolInt(v1 = v2)

\* self._pointer += width, after a store that did not raise
Stored(st, m, width) ==
    IF st.err.kind # "none" THEN Raised(st.err, m)
    ELSE Done([st.m EXCEPT !.pointer = m.pointer + width], RetNone)

ArithOperands(m, code, d, r1, r2) ==
    IF r1.err.kind # "none" THEN Raised(r1.err, m)
    ELSE IF r2.err.kind # "none" THEN Raised(r2.err, m)
    ELSE Stored(StoreInMemory(m, d.tuple[3], d.tuple[6],
                              Arith(code, r1.value, r2.value)),
                m, 4)

ArithDecoded(m, code, d) ==
    IF d.err.kind # "none" THEN Raised(d.err, m)
    ELSE ArithOperands(m, code, d,
                       ValueForMode(m, d.tuple[1], d.tuple[4]),
                       ValueForMode(m, d.tuple[2], d.tuple[5]))

\* _execute_code_1, _execute_code_2, _execute_code_7, _execute_code_8
ExecuteArith(m, code) == ArithDecoded(m, code, ParamValAndMode(m, 3))

\* self._inputs.pop(0)
PopInput(m) == [m EXCEPT !.inputs = Tail(m.inputs)]

\* An input instruction that reads 0 from an empty queue instead of raising.
InputDecoded_PopDefault(m, d) ==
    IF d.err.kind # "none" THEN Raised(d.err, m)
    ELSE IF m.inputs = <<>>
    THEN Stored(StoreInMemory(m, d.tuple[1], d.tuple[2], 0), m, 2)
    ELSE Stored(StoreInMemory(PopInput(m), d.tuple[1], d.tuple[2], Head(m.inputs)),
                PopInput(m), 2)

\* An input instruction that takes the newest entry, self._inputs.pop(), instead of
\* the oldest.
InputDecoded_PopLast(m, d) ==
    IF d.err.kind # "none" THEN Raised(d.err, m)
    ELSE IF m.inputs = <<>> THEN Raised(Raise("IndexError", "pop", 0), m)
    ELSE Stored(StoreInMemory([m EXCEPT !.inputs = SubSeq(m.inputs, 1, Len(m.inputs) - 1)],
                              d.tuple[1], d.tuple[2], m.inputs[Len(m.inputs)]),
                [m EXCEPT !.inputs = SubSeq(m.inputs, 1, Len(m.inputs) - 1)], 2)

\* self._inputs.pop(0) is evaluated as an argument, before _store_in_memory runs: a
\* store that raises has already consumed the input.
InputDecoded(m, d) ==
    IF d.err.kind # "none" THEN Raised(d.err, m)
    ELSE IF m.inputs = <<>> THEN Raised(Raise("IndexError", "pop", 0), m)
    ELSE Stored(StoreInMemory(PopInput(m), d.tuple[1], d.tuple[2], Head(m.inputs)),
                PopInput(m), 2)

\* _execute_code_3 (ask_for_input is False)
ExecuteCode3(m) == InputDecoded(m, ParamValAndMode(m, 1))

\* "if self.return_output: return v1"
OutputReturn(m, v1) == IF m.return_output THEN Ret(v1) ELSE RetNone

\* emitted records every value an output instruction produced.
OutputOperand(m, r1) ==
    IF r1.err.kind # "none" THEN Raised(r1.err, m)
    ELSE Done([m EXCEPT !.outputs = IF m.gather_output
                                    THEN Append(m.outputs, r1.value)
                                    ELSE m.outputs,
                        !.emitted = Append(m.emitted, r1.value),
                        !.pointer = m.pointer + 2],
              OutputReturn(m, r1.value))

OutputDecoded(m, d) ==
    IF d.err.kind # "none" THEN Raised(d.err, m)
    ELSE OutputOperand(m, ValueForMode(m, d.tuple[1], d.tuple[2]))

\* _execute_code_4
ExecuteCode4(m) == OutputDecoded(m, ParamValAndMode(m, 1))

\* "jump if check" of code 5, "jump if not check" of code 6
JumpTaken(code, check) == IF code = 5 THEN check # 0 ELSE check = 0

JumpOperands(m, code, check, jump) ==
    IF check.err.kind # "none" THEN Raised(check.err, m)
    ELSE IF jump.err.kind # "none" THEN Raised(jump.err, m)
    ELSE Done([m EXCEPT !.pointer = IF JumpTaken(code, check.value)
                                    THEN jump.value
                                    ELSE m.pointer + 3],
              RetNone)

JumpDecoded(m, code, d) ==
    IF d.err.kind # "none" THEN Raised(d.err, m)
    ELSE JumpOperands(m, code,
                      ValueForMode(m, d.tuple[1], d.tuple[3]),
                      ValueForMode(m, d.tuple[2], d.tuple[4]))

\* _execute_code_5, _execute_code_6
ExecuteJump(m, code) == JumpDecoded(m, code, ParamValAndMode(m, 2))

\* Code 9 written with "=" where the class has "+=".
BaseOperand_Assign(m, r1) ==
    IF r1.err.kind # "none" THEN Raised(r1.err, m)
    ELSE Done([m EXCEPT !.relative_base = r1.value,
                        !.pointer = m.pointer + 2],
              RetNone)

BaseOperand(m, r1) ==
    IF r1.err.kind # "none" THEN Raised(r1.err, m)
    ELSE Done([m EXCEPT !.relative_base = m.relative_base + r1.value,
                        !.pointer = m.pointer + 2],
              RetNone)

BaseDecoded(m, d) ==
    IF d.err.kind # "none" THEN Raised(d.err, m)
    ELSE BaseOperand(m, ValueForMode(m, d.tuple[1], d.tuple[2]))

\* _execute_code_9
ExecuteCode9(m) == BaseDecoded(m, ParamValAndMode(m, 1))

\* getattr(self, f"_execute_code_{code}")(): there is no handler for code 0.
Execute(m, code) ==
    CASE code \in {1, 2, 7, 8} -> ExecuteArith(m, code)
      [] code = 3 -> ExecuteCode3(m)
      [] code = 4 -> ExecuteCode4(m)
      [] code \in {5, 6} -> ExecuteJump(m, code)
      [] code = 9 -> ExecuteCode9(m)
      [] OTHER -> Raised(Raise("AttributeError", "dispatch", code), m)

(***************************************************************************)
(* run(), append_inputs() and reset().                                     *)
(***************************************************************************)
\* "return x" out of run(), or an exception leaving it.
Return(m, result) == [m EXCEPT !.pc = "idle", !.result = result]

\* run() ending in "return self._outputs" whatever gather_output is.
RunResult_AlwaysOutputs(m) == ResultOutputs(m.outputs)

\* The value run() returns once the loop ends: the gathered outputs, or None when
\* the dictionary-backed class was built without gather_output.
RunResult(m) ==
    IF m.gather_output THEN ResultOutputs(m.outputs) ELSE ResultNone

\* The test without "and not self._returned".
ReturnsBeforeInput_NoFlag(m) ==
    /\ m.kind = "dict"
    /\ CurrentCode(m) = 3
    /\ m.return_before_input

\* The test with "and not self._inputs" added: suspend only for an empty queue.
ReturnsBeforeInput_OnlyWhenEmpty(m) ==
    /\ m.kind = "dict"
    /\ CurrentCode(m) = 3
    /\ m.return_before_input
    /\ ~m.returned
    /\ m.inputs = <<>>

\* code == "3" and self.return_before_input and not self._returned
ReturnsBeforeInput(m) ==
    /\ m.kind = "dict"
    /\ CurrentCode(m) = 3
    /\ m.return_before_input
    /\ ~m.returned

\* The test written "if output:", which is false for the value 0.
ReturnsOutput_Truthy(ret) == ret.has /\ ret.value # 0

\* "if output is not None: return output"
ReturnsOutput(ret) == ret.has

\* steps counts the executed instructions of the instance; an executed instruction
\* ends a suspension.
Counted(m) == [m EXCEPT !.steps = m.steps + 1, !.starved = FALSE]

\* The rest of the loop body once the handler has run.  delivered records the
\* output values run() handed to its caller.
AfterExecute(x) ==
    IF x.err.kind # "none" THEN Return(x.m, ResultFault(x.err))
    ELSE IF ReturnsOutput(x.ret)
    THEN Return([Counted(x.m) EXCEPT !.delivered = Append(x.m.delivered, x.ret.value)],
                ResultOutput(x.ret.value))
    ELSE [Counted(x.m) EXCEPT !.returned = FALSE]

\* One pass through "while not self.halted(): ..." of run(), or the return that
\* follows the loop.  starved records that the sentinel was returned while the input
\* queue was empty.
Iteration(m) ==
    IF ValueRaises(m).kind # "none" THEN Return(m, ResultFault(ValueRaises(m)))
    ELSE IF Halted(m) THEN Return(m, RunResult(m))
    ELSE IF ReturnsBeforeInput(m)
    THEN Return([m EXCEPT !.returned = TRUE, !.starved = (m.inputs = <<>>)],
                ResultSentinel)
    ELSE AfterExecute(Execute(m, CurrentCode(m)))

\* append_inputs written with self._inputs.insert(0, i).
AppendInputs_Front(m, args) == [m EXCEPT !.inputs = args \o m.inputs]

\* append_inputs of the dict-backed class, inputs.append on the list-backed one
AppendInputs(m, args) == [m EXCEPT !.inputs = m.inputs \o args]

\* reset().  The relative base, the extra memory and the _returned flag are not
\* among the fields it assigns.
ResetMachine(m) ==
    [m EXCEPT !.memory  = IF m.kind = "dict" THEN m.original_program ELSE m.memory,
              !.program = IF m.kind = "list" THEN m.original_program ELSE m.program,
              !.inputs  = m.original_inputs,
              !.pointer = 0,
              !.outputs = <<>>,
              !.emitted = <<>>,
              !.delivered = <<>>,
              !.starved = FALSE,
              !.resets = m.resets + 1]

(***************************************************************************)
(* The programs, inputs and options the instances are built from.          *)
(***************************************************************************)
\* Values the host passes to append_inputs.
InputVals == {0, 8}

AppendArgs == {<<v>> : v \in InputVals}

\* (inputs, amp_phase) of the constructor.
ConstructArgs ==
    { <<<<>>, NoPhase>>, <<<<6>>, NoPhase>>, <<<<>>, Phase(5)>>, <<<<6>>, Phase(5)>> }

\* The examples of the specification, and a program that is halted from the start.
ExamplePrograms ==
    { <<99>>, <<1, 0, 0, 0, 99>>, <<1002, 4, 3, 4, 33>> }

\* One output instruction in each mode; the operand addresses a cell before the
\* program, inside it, the cell right after it (3) and cells further out.
OutputPrograms ==
    { <<w, p, 99>> : w \in {4, 104, 204}, p \in {-1, 0, 3, 4, 9} }

\* One input instruction in each mode, its cell then read back by position.
InputPrograms ==
    { <<w, p, 4, p, 99>> : w \in {3, 103, 203}, p \in {-1, 0, 5, 6, 9} }

\* The relative base moved by k, then a relative read, write or second move.
RelativePrograms ==
    { <<109, k, w, p, 99>> : k \in {1, 5}, w \in {204, 203, 209}, p \in {-1, 0, 4} }

\* Addition, multiplication, less-than and equals in position and immediate mode,
\* with a position, an immediate and a relative destination.
ArithPrograms ==
    { <<w>> \o abc \o <<99>> :
        w \in {1, 1101, 1002, 2, 1107, 8, 11101, 21101},
        abc \in { <<1, 1, 5>>, <<4, 0, 6>> } }

\* A value written to address a and read back, by position and by relative mode; the
\* programs are 7 and 9 words long.
WriteReadPrograms ==
    { <<1101, 3, 4, a, 4, a, 99>> : a \in {0, 6, 7, 8, 12} }
    \cup { <<109, 2, 21101, 3, 4, a - 2, 204, a - 2, 99>> : a \in {9, 10, 14} }
    \cup { <<109, 2, 1101, 3, 4, a, 204, a - 2, 99>> : a \in {9, 10, 14} }

\* Jumps taken and not taken, to targets inside, before and after the program, and
\* two loops that count a cell down.
JumpPrograms ==
    { <<1105, 1, 0>>, <<1105, 0, 0, 99>>, <<1105, 1, 4, 0, 99>>, <<1106, 0, 3, 99>>,
      <<1106, 1, 0, 99>>, <<5, 1, 4, 99, 3>>, <<6, 3, 4, 0, 3>>,
      <<1105, 1, -1, 99>>, <<1105, 1, 7, 99>>,
      <<1001, 8, -1, 8, 1005, 8, 0, 99, 2>>,
      <<4, 10, 1001, 10, -1, 10, 1005, 10, 0, 99, 2>> }

\* Several outputs, among them the value 0, and inputs echoed in order.
StreamPrograms ==
    { <<104, 0, 104, 5, 4, 1, 99>>,
      <<3, 9, 3, 10, 4, 9, 4, 10, 99, 0, 0>>,
      <<3, 0, 104, 0, 3, 1, 99>> }

\* Words that are no instruction, and instructions cut off by the end of the program.
MalformedPrograms ==
    { <<10, 0, 99>>, <<11, 0, 0, 0, 99>>, <<21, 0, 0, 0, 99>>, <<199, 0, 99>>,
      <<0>>, <<98>>, <<1099, 0, 99>>, <<-1, 0, 0, 0, 99>>, <<11003, 0, 99>>,
      <<304, 0, 99>>, <<104>>, <<3>>, <<1101, 1, 1>>, <<1105, 1, 4, 99, 1003>>,
      <<119, 5, 99>> }

Programs ==
    ExamplePrograms \cup OutputPrograms \cup InputPrograms \cup RelativePrograms
    \cup ArithPrograms \cup WriteReadPrograms \cup JumpPrograms \cup StreamPrograms
    \cup MalformedPrograms

Machines ==
    { NewDict(p, a[1], a[2], rbi, ro, go) :
        p \in Programs, a \in ConstructArgs,
        rbi \in BOOLEAN, ro \in BOOLEAN, go \in BOOLEAN }
    \cup
    { NewList(p, a[1], a[2], ro) :
        p \in Programs, a \in ConstructArgs, ro \in BOOLEAN }

(***************************************************************************)
(* The host and the machine.                                               *)
(***************************************************************************)
\* The value of a variable while no caller of its kind runs.
Absent == [present |-> FALSE]

Init ==
    /\ vm \in Machines
    /\ pair = Absent
    /\ ring = Absent
    /\ game = Absent
    /\ standalone = Absent

\* The host calls run().
RunCall ==
    /\ vm.pc = "idle"
    /\ vm' = [vm EXCEPT !.pc = "running"]
    /\ UNCHANGED <<pair, ring, game, standalone>>

\* The loop of run() finds the machine halted and run() returns.
RunHalted ==
    /\ vm.pc = "running"
    /\ \E n \in {Iteration(vm)} :
         /\ n.pc = "idle"
         /\ n.result.type \in {"Outputs", "None"}
         /\ vm' = n
    /\ UNCHANGED <<pair, ring, game, standalone>>

\* run() returns the sentinel in front of an input instruction.
RunSuspend ==
    /\ vm.pc = "running"
    /\ \E n \in {Iteration(vm)} :
         /\ n.pc = "idle"
         /\ n.result.type = "Sentinel"
         /\ vm' = n
    /\ UNCHANGED <<pair, ring, game, standalone>>

\* run() executes one instruction, and returns if the instruction returned a value.
RunExecute ==
    /\ vm.pc = "running"
    /\ vm.steps < MaxSteps
    /\ \E n \in {Iteration(vm)} :
         /\ n.steps = vm.steps + 1
         /\ vm' = n
    /\ UNCHANGED <<pair, ring, game, standalone>>

\* An exception leaves run().
RunFault ==
    /\ vm.pc = "running"
    /\ \E n \in {Iteration(vm)} :
         /\ n.pc = "idle"
         /\ n.result.type = "Fault"
         /\ vm' = n
    /\ UNCHANGED <<pair, ring, game, standalone>>

\* The host calls append_inputs (comp.inputs.append on the list-backed class).
HostAppend ==
    /\ vm.pc = "idle"
    /\ \E args \in AppendArgs :
         /\ Len(vm.inputs) + Len(args) <= MaxQueue
         /\ vm' = AppendInputs(vm, args)
    /\ UNCHANGED <<pair, ring, game, standalone>>

\* The host calls reset().
HostReset ==
    /\ vm.pc = "idle"
    /\ vm.resets < MaxResets
    /\ vm' = ResetMachine(vm)
    /\ UNCHANGED <<pair, ring, game, standalone>>

Next ==
    \/ RunCall
    \/ RunHalted
    \/ RunSuspend
    \/ RunExecute
    \/ RunFault
    \/ HostAppend
    \/ HostReset

Spec == Init /\ [][Next]_vars

(***************************************************************************)
(* State functions used by the properties.                                 *)
(***************************************************************************)
\* Whether address a holds a word, and the word it holds.
Holds(m, a) ==
    IF m.kind = "dict" THEN a \in DOMAIN m.memory
    ELSE (0 <= a /\ a < Len(m.program)) \/ a \in DOMAIN m.extra_memory

WordAt(m, a) ==
    IF m.kind = "dict" THEN m.memory[a]
    ELSE IF a \in DOMAIN m.extra_memory THEN m.extra_memory[a] ELSE m.program[a + 1]

\* The instruction word at the pointer is 99.
AtHalt(m) ==
    IF m.kind = "dict"
    THEN m.pointer \in DOMAIN m.memory /\ m.memory[m.pointer] = 99
    ELSE PyIndexOK(m.program, m.pointer) /\ PyIndex(m.program, m.pointer) = 99

\* The whole memory of the machine.
MemoryOf(m) == <<m.memory, m.program, m.extra_memory>>

\* run() returned because the machine is halted.
ReturnedHalt(m) == m.pc = "idle" /\ m.result.type \in {"Outputs", "None"}

(***************************************************************************)
(* C1.  Halted is terminal: once the word at the pointer is 99, a step     *)
(* other than reset() executes no instruction, leaves memory, pointer,     *)
(* relative base and gathered outputs unchanged and the word at the        *)
(* pointer 99; a run() call changes nothing of the input queue and returns *)
(* the halt result.                                                        *)
(***************************************************************************)
C1_HaltedIsTerminal ==
    [][ (AtHalt(vm) /\ vm'.resets = vm.resets) =>
          /\ MemoryOf(vm') = MemoryOf(vm)
          /\ vm'.pointer = vm.pointer
          /\ vm'.relative_base = vm.relative_base
          /\ vm'.outputs = vm.outputs
          /\ vm'.steps = vm.steps
          /\ AtHalt(vm')
          /\ (vm.pc = "running" => (vm'.inputs = vm.inputs /\ ReturnedHalt(vm'))) ]_vars

\* run() has been called again on a machine whose last run() returned at halt, after
\* the host appended inputs.
C1_Witness ==
    /\ AtHalt(vm)
    /\ vm.pc = "running"
    /\ vm.result.type \in {"Outputs", "None"}
    /\ vm.steps > 0
    /\ Len(vm.inputs) > Len(vm.original_inputs)

(***************************************************************************)
(* Input instructions and the needs-input event.                           *)
(***************************************************************************)
\* The word at the pointer decodes, as the specification decodes it, to opcode 3.
NextIsInput(m) ==
    /\ Holds(m, m.pointer)
    /\ WordAt(m, m.pointer) >= 0
    /\ WordAt(m, m.pointer) % 100 = 3

\* An opcode-3 word with a single mode digit whose parameter word is in memory.
WellFormedInput(m) ==
    /\ NextIsInput(m)
    /\ WordAt(m, m.pointer) < 1000
    /\ Holds(m, m.pointer + 1)

\* run() has just returned the sentinel: the needs-input event.
NeedsInput(m) == m.pc = "idle" /\ m.result.type = "Sentinel"

\* run() has just been left by an exception.
Faulted(m) == m.pc = "idle" /\ m.result.type = "Fault"

\* Pointer, memory and input queue are the same in both machines.
SameIpMemoryQueue(m, n) ==
    /\ n.pointer = m.pointer
    /\ MemoryOf(n) = MemoryOf(m)
    /\ n.inputs = m.inputs

InputDestination(m) ==
    IF DigitAt(WordAt(m, m.pointer), 2) = 2
    THEN m.relative_base + WordAt(m, m.pointer + 1)
    ELSE WordAt(m, m.pointer + 1)

(***************************************************************************)
(* C4.  After run() returned the needs-input event with an empty queue and *)
(* the host appended v, the next run() executes that input instruction     *)
(* (word 3 or 203, parameter word in memory): it stores v at the           *)
(* destination, consumes it, advances the pointer by 2 and goes on.        *)
(***************************************************************************)
C4_StarvationRecoverable ==
    [][ ( /\ vm.pc = "running"
          /\ vm.starved
          /\ vm.inputs # <<>>
          /\ WellFormedInput(vm)
          /\ DigitAt(WordAt(vm, vm.pointer), 2) \in {0, 2} ) =>
          /\ Holds(vm', InputDestination(vm))
          /\ WordAt(vm', InputDestination(vm)) = Head(vm.inputs)
          /\ vm'.inputs = Tail(vm.inputs)
          /\ vm'.pointer = vm.pointer + 2
          /\ vm'.steps = vm.steps + 1
          /\ vm'.pc = "running" ]_vars

\* run() has been called after the host appended two values to the queue of a
\* machine that had returned the needs-input event with an empty queue.
C4_Witness ==
    /\ vm.pc = "running"
    /\ vm.starved
    /\ Len(vm.inputs) = 2
    /\ vm.inputs[1] # vm.inputs[2]
    /\ WellFormedInput(vm)
    /\ DigitAt(WordAt(vm, vm.pointer), 2) = 2

\* C5 as claimed: run() returns the needs-input event only when the queue is empty.
C5_Original ==
    [][ (vm.pc = "running" /\ NextIsInput(vm) /\ vm.inputs # <<>>) =>
          ~NeedsInput(vm') ]_vars

(***************************************************************************)
(* C5 (amended).  In the dictionary-backed class, in front of an opcode 3  *)
(* (one mode digit, parameter word in memory) with a non-empty queue:      *)
(* built with return_before_input, run() returns the needs-input event     *)
(* once, consuming nothing; otherwise (option off, or event already        *)
(* returned for this instruction) the instruction consumes the front entry *)
(* and execution continues without suspending.                             *)
(***************************************************************************)
C5_SuspendsOnceElseConsumes ==
    [][ ( /\ vm.kind = "dict"
          /\ vm.pc = "running"
          /\ WellFormedInput(vm)
          /\ vm.inputs # <<>> ) =>
          IF vm.return_before_input /\ ~vm.returned
          THEN NeedsInput(vm') /\ SameIpMemoryQueue(vm, vm')
          ELSE /\ vm'.pc = "running"
               /\ vm'.inputs = Tail(vm.inputs)
               /\ vm'.pointer = vm.pointer + 2 ]_vars

\* run() has returned the needs-input event although the queue holds an entry.
C5_Witness ==
    /\ NeedsInput(vm)
    /\ WellFormedInput(vm)
    /\ vm.inputs # <<>>
    /\ ~vm.starved
    /\ vm.steps > 0

(***************************************************************************)
(* Output policies.                                                        *)
(***************************************************************************)
\* The step is an output instruction: it emitted a value.
Emits(m, n) == n.resets = m.resets /\ Len(n.emitted) = Len(m.emitted) + 1

\* run() has just returned the value v of an output instruction.
Produced(m, v) == m.pc = "idle" /\ m.result.type = "Output" /\ m.result.value = v

(***************************************************************************)
(* C6.  With return_output, the step that executes an output instruction   *)
(* ends the run() call: run() returns the emitted value with the pointer   *)
(* advanced by 2, and the values run() has returned are at every moment    *)
(* exactly the values emitted, in order.                                   *)
(***************************************************************************)
C6_StreamingReturnsEachOutputOnce ==
    [][ vm.return_output =>
          /\ vm'.delivered = vm'.emitted
          /\ Emits(vm, vm') =>
               /\ vm'.emitted = Append(vm.emitted, vm'.emitted[Len(vm'.emitted)])
               /\ Produced(vm', vm'.emitted[Len(vm'.emitted)])
               /\ vm'.pointer = vm.pointer + 2 ]_vars

\* Three run() calls have returned the values 0, 5 and 0 of three output
\* instructions.
C6_Witness ==
    /\ vm.return_output
    /\ Produced(vm, 0)
    /\ vm.delivered = <<0, 5, 0>>

\* The instance was built without output or suspension options.
DefaultOptions(m) ==
    /\ ~m.return_before_input
    /\ ~m.return_output
    /\ (m.kind = "dict" => ~m.gather_output)

\* C7 as claimed: built with default options, the run() that reaches halt returns the
\* sequence of all emitted values.
C7_Original ==
    [][ (DefaultOptions(vm) /\ vm.pc = "running" /\ ReturnedHalt(vm')) =>
          (vm'.result.type = "Outputs" /\ vm'.result.list = vm'.emitted) ]_vars

(***************************************************************************)
(* C7 (amended).  The dictionary-backed class built with default options   *)
(* keeps no output: the values emitted are dropped and the run() that      *)
(* reaches halt returns None.  Built with gather_output (and always in the *)
(* list-backed class) every emitted value is accumulated in emission order *)
(* and the run() that reaches halt returns exactly that sequence.          *)
(***************************************************************************)
C7_BatchOnlyWithGatherOutput ==
    [][ /\ vm'.outputs = (IF vm.gather_output THEN vm'.emitted ELSE <<>>)
        /\ (vm.pc = "running" /\ ReturnedHalt(vm')) =>
             IF vm.gather_output
             THEN vm'.result.type = "Outputs" /\ vm'.result.list = vm'.emitted
             ELSE vm'.result.type = "None" ]_vars

\* A dictionary-backed machine built with default options has emitted three values
\* and its run() has returned at halt.
C7_Witness ==
    /\ vm.kind = "dict"
    /\ DefaultOptions(vm)
    /\ ReturnedHalt(vm)
    /\ vm.emitted = <<0, 5, 0>>

(***************************************************************************)
(* reset() and the memory.                                                 *)
(***************************************************************************)
\* C8 as claimed: reset() restores memory, pointer, relative base and input queue to
\* their values at construction.
C8_Original ==
    [][ (vm'.resets = vm.resets + 1) =>
          /\ vm'.pointer = 0
          /\ vm'.relative_base = 0
          /\ vm'.inputs = vm.original_inputs
          /\ IF vm.kind = "dict"
             THEN vm'.memory = vm.original_program
             ELSE vm'.program = vm.original_program /\ vm'.extra_memory = <<>> ]_vars

\* The machine was built from a program that writes 3 + 4 to an address and reads the
\* address back with an output instruction.
WritesThenReads(m) ==
    IF m.kind = "dict"
    THEN \E p \in WriteReadPrograms : m.original_program = Enumerate(p)
    ELSE m.original_program \in WriteReadPrograms

\* C9 as claimed: no read of a never-written address >= 0, by an operand or by the
\* fetch of a parameter word, fails: it yields 0.
C9_Original ==
    ~( /\ Faulted(vm)
       /\ vm.result.err.site \in {"read", "parameter"}
       /\ vm.result.err.addr >= 0
       /\ ~Holds(vm, vm.result.err.addr) )

\* C10 as claimed: no write to an address >= 0 fails, and the value written is the
\* value read back.
C10_Original ==
    /\ ~( /\ Faulted(vm)
          /\ vm.result.err.site = "write"
          /\ vm.result.err.addr >= 0 )
    /\ (WritesThenReads(vm) /\ vm.emitted # <<>>) => vm.emitted = <<7>>

(***************************************************************************)
(* Faults of the address and of the decoder.                               *)
(***************************************************************************)
\* The address the single operand of the instruction at the pointer resolves to.
OperandAddress(m) ==
    IF DigitAt(WordAt(m, m.pointer), 2) = 2
    THEN m.relative_base + WordAt(m, m.pointer + 1)
    ELSE WordAt(m, m.pointer + 1)

\* The next pass of the loop executes an output instruction that reads its operand
\* from memory (word 4 or 204, parameter word in memory).
NextReadsMemory(m) ==
    /\ Holds(m, m.pointer)
    /\ WordAt(m, m.pointer) \in {4, 204}
    /\ Holds(m, m.pointer + 1)

\* The next pass of the loop executes a well-formed input instruction with a value to
\* take from the queue.
NextStoresInput(m) ==
    /\ WellFormedInput(m)
    /\ m.inputs # <<>>
    /\ ~ReturnsBeforeInput(m)

\* C11 as claimed: an output instruction that reads, or an input instruction that
\* writes, a negative address makes run() fault; nothing is emitted or stored.
C11_Original ==
    [][ ( /\ vm.pc = "running"
          /\ \/ NextReadsMemory(vm)
             \/ NextStoresInput(vm) /\ DigitAt(WordAt(vm, vm.pointer), 2) \in {0, 2}
          /\ OperandAddress(vm) < 0 ) =>
          /\ Faulted(vm')
          /\ MemoryOf(vm') = MemoryOf(vm)
          /\ vm'.emitted = vm.emitted ]_vars

\* The opcodes of the specification.
Opcodes == (1..9) \cup {99}

\* C12 as claimed: a word w >= 0 at the pointer with w mod 100 outside 1..9, 99 makes
\* run() fault and no instruction executes.
C12_Original ==
    [][ ( /\ vm.pc = "running"
          /\ Holds(vm, vm.pointer)
          /\ WordAt(vm, vm.pointer) >= 0
          /\ (WordAt(vm, vm.pointer) % 100) \notin Opcodes ) =>
          /\ Faulted(vm')
          /\ vm'.steps = vm.steps
          /\ MemoryOf(vm') = MemoryOf(vm)
          /\ vm'.pointer = vm.pointer ]_vars

\* The next pass of the loop executes an instruction of opcode 1, 2, 7 or 8 whose
\* three parameter words are in memory and whose third mode digit is 1.
NextStoresImmediateArith(m) ==
    /\ Holds(m, m.pointer)
    /\ WordAt(m, m.pointer) >= 10000
    /\ WordAt(m, m.pointer) < 20000
    /\ (WordAt(m, m.pointer) % 100) \in {1, 2, 7, 8}
    /\ \A k \in 1..3 : Holds(m, m.pointer + k)

\* C13 as claimed: an instruction whose destination parameter has mode digit 1 makes
\* run() fault and writes nothing.
C13_Original ==
    [][ ( /\ vm.pc = "running"
          /\ \/ NextStoresInput(vm) /\ DigitAt(WordAt(vm, vm.pointer), 2) = 1
             \/ NextStoresImmediateArith(vm) ) =>
          /\ Faulted(vm')
          /\ MemoryOf(vm') = MemoryOf(vm) ]_vars

(***************************************************************************)
(* The input queue.                                                        *)
(***************************************************************************)
\* The queue a constructor call leaves: the phase, if given, then the inputs.
ConstructedQueues ==
    { (IF a[2].given THEN <<a[2].value>> ELSE <<>>) \o a[1] : a \in ConstructArgs }

\* q is p with values added at the back.
ExtendsAtBack(p, q) == Len(q) >= Len(p) /\ SubSeq(q, 1, Len(p)) = p

(***************************************************************************)
(* C14.  The input queue is first-in first-out.  It starts as the phase,   *)
(* if given, followed by the initial inputs in order; append_inputs adds   *)
(* at the back; every executed input instruction stores the front value    *)
(* (at its destination address >= 0) and removes exactly that value; no    *)
(* other step reorders, duplicates or inserts a value (an input            *)
(* instruction that is cut off by the end of the program, or whose store   *)
(* raises, takes the front value too).                                     *)
(***************************************************************************)
C14_InputQueueIsFifo ==
    /\ vm.inputs \in ConstructedQueues
    /\ (vm.amp_phase.given => Head(vm.inputs) = vm.amp_phase.value)
    /\ [][ vm'.resets = vm.resets =>
             IF vm.pc = "idle" /\ vm'.pc = "idle"
             THEN ExtendsAtBack(vm.inputs, vm'.inputs)
             ELSE IF vm'.steps = vm.steps + 1 /\ WellFormedInput(vm)
             THEN /\ vm.inputs # <<>>
                  /\ vm'.inputs = Tail(vm.inputs)
                  /\ OperandAddress(vm) >= 0 =>
                       WordAt(vm', OperandAddress(vm)) = Head(vm.inputs)
             ELSE \/ vm'.inputs = vm.inputs
                  \/ /\ CurrentCode(vm) = 3
                     /\ vm.inputs # <<>>
                     /\ vm'.inputs = Tail(vm.inputs) ]_vars

\* Built with phase 5 and initial input 6, then given 8 by append_inputs, the echo
\* program has stored and emitted 5 and 6, and 8 is still queued.
C14_Witness ==
    /\ vm.amp_phase.given
    /\ vm.original_inputs = <<5, 6>>
    /\ vm.emitted = <<5, 6>>
    /\ vm.inputs = <<8>>
    /\ vm.steps = 4

(***************************************************************************)
(* Faults and later run() calls.                                           *)
(***************************************************************************)
\* C16 as claimed: on an instance never reset, a run() called after a run() that
\* faulted faults again and leaves pointer, memory, relative base and queue as they
\* were.
C16_Original ==
    [][ (vm.pc = "running" /\ vm.result.type = "Fault" /\ vm.resets = 0) =>
          /\ Faulted(vm')
          /\ SameIpMemoryQueue(vm, vm')
          /\ vm'.relative_base = vm.relative_base ]_vars

\* C19 as claimed: a dictionary-backed instance built with amp_phase returns from
\* run() at every value it emits.
C19_Original ==
    [][ (vm.kind = "dict" /\ vm.amp_phase.given /\ Emits(vm, vm')) =>
          Produced(vm', vm'.emitted[Len(vm'.emitted)]) ]_vars

(***************************************************************************)
(* The self-replicating program.                                           *)
(***************************************************************************)
QuineProgram ==
    <<109, 1, 204, -1, 1001, 100, 1, 100, 1008, 100, 16, 101, 1006, 101, 0, 99>>

\* The program on both classes, with empty input, under every output option.
QuineMachines ==
    { NewDict(QuineProgram, <<>>, NoPhase, rbi, ro, go) :
        rbi \in BOOLEAN, ro \in BOOLEAN, go \in BOOLEAN }
    \cup { NewList(QuineProgram, <<>>, NoPhase, ro) : ro \in BOOLEAN }

QuineInit ==
    /\ vm \in QuineMachines
    /\ pair = Absent
    /\ ring = Absent
    /\ game = Absent
    /\ standalone = Absent

\* run() executes one instruction of the program.
QuineExecute ==
    /\ vm.pc = "running"
    /\ vm.steps < MaxQuineSteps
    /\ \E n \in {Iteration(vm)} :
         /\ n.steps = vm.steps + 1
         /\ vm' = n
    /\ UNCHANGED <<pair, ring, game, standalone>>

QuineNext ==
    \/ RunCall
    \/ RunHalted
    \/ QuineExecute

SpecQuine == QuineInit /\ [][QuineNext]_vars

(***************************************************************************)
(* C20.  The self-replicating program emits its own 16 words in order: at  *)
(* every moment the values emitted are a prefix of the program, at the     *)
(* halt they are the whole program, and with accumulated output the run()  *)
(* that reaches the halt returns exactly the program.                      *)
(***************************************************************************)
C20_QuineReproducesItself ==
    /\ ExtendsAtBack(vm.emitted, QuineProgram)
    /\ vm.result.type # "Fault"
    /\ AtHalt(vm) =>
         /\ vm.emitted = QuineProgram
         /\ vm.gather_output => vm.outputs = QuineProgram
         /\ (ReturnedHalt(vm) /\ vm.gather_output) =>
              (vm.result.type = "Outputs" /\ vm.result.list = QuineProgram)

\* run() of the list-backed class has returned the 16 words at the halt.
C20_Witness ==
    /\ vm.kind = "list"
    /\ ~vm.return_output
    /\ ReturnedHalt(vm)
    /\ AtHalt(vm)
    /\ Len(vm.result.list) = 16
    /\ vm.result.list = vm.original_program

(***************************************************************************)
(* run() as one call, for callers that drive several instances.            *)
(***************************************************************************)
RECURSIVE RunLoop(_, _)
\* The passes of the loop of run() until run() returns or raises.
RunLoop(m, limit) ==
    IF m.pc = "idle" \/ m.steps >= limit THEN m ELSE RunLoop(Iteration(m), limit)

\* comp.run()
RunToReturn(m, limit) == RunLoop([m EXCEPT !.pc = "running"], limit)

\* The Python object run() returned: an integer, the list of outputs, or None.
PyValue(result) ==
    IF result.type = "Output" THEN result.value
    ELSE IF result.type = "Outputs" THEN result.list
    ELSE "None"

(***************************************************************************)
(* max_signal: five amplifiers in a ring, for one permutation of phases.   *)
(***************************************************************************)
PhaseRange == 5..9

\* permutations(phase_range, 5)
PhaseSettings ==
    { ps \in [1..5 -> PhaseRange] : \A i, j \in 1..5 : ps[i] = ps[j] => i = j }

\* One round, halting right after the output.
RingOnce == <<3, 11, 3, 12, 1, 11, 12, 12, 4, 12, 99, 0, 0>>

\* Two rounds unrolled, halting right after the second output.
RingUnrolled == <<3, 15, 3, 16, 1, 15, 16, 16, 4, 16, 3, 16, 4, 16, 99, 0, 0>>

\* Two rounds counted down in cell 22: after the last output the amplifier still has
\* instructions to execute before it halts.
RingCounted ==
    <<3, 20, 3, 21, 1, 20, 21, 21, 4, 21, 1001, 22, -1, 22, 1005, 22, 2, 99,
      0, 0, 0, 0, 2>>

\* A program that asks for a third input in its first turn.
RingStarved == <<3, 0, 3, 0, 3, 0, 4, 0, 99>>

RingPrograms == {RingOnce, RingUnrolled, RingCounted, RingStarved}

\* IntcodeComputer(intcode_program, amp_phase=phase) of sol07.py and
\* IntcodeComputer(intcode_program, amp_phase=phase, return_output=True) of day07.py
Amplifier(kind, program, phase) ==
    IF kind = "list"
    THEN NewList(program, <<>>, Phase(phase), FALSE)
    ELSE NewDict(program, <<>>, Phase(phase), FALSE, TRUE, FALSE)

\* The state of max_signal in front of the while loop.  fed records, for each
\* amplifier, the results of run() that were appended to its inputs.
NewRing(kind, program, phase_setting) ==
    [ present          |-> TRUE,
      computers        |-> [i \in 1..5 |-> Amplifier(kind, program, phase_setting[i])],
      phase_setting    |-> phase_setting,
      signal_input     |-> ResultOutput(0),
      current_computer |-> 0,
      pc               |-> "loop",
      thruster_signal  |-> ResultNotRun,
      fed              |-> [i \in 1..5 |-> <<>>] ]

\* computers[current_computer]
Comp(r) == r.computers[r.current_computer + 1]

\* "current_computer += 1; if current_computer == 5: current_computer = 0"
NextComputer(c) == IF c + 1 = 5 THEN 0 ELSE c + 1

\* The loop body after comp.run() has returned n.result.
Turned(r, n) ==
    [r EXCEPT !.computers[r.current_computer + 1] = n,
              !.signal_input = n.result,
              !.current_computer = NextComputer(r.current_computer),
              !.fed[r.current_computer + 1] = Append(@, r.signal_input)]

\* The body of the while loop up to comp.run(): append the signal, run.
TurnRun(r) ==
    RunToReturn(AppendInputs(Comp(r), <<PyValue(r.signal_input)>>), MaxCallSteps)

RingInit ==
    /\ ring \in { NewRing(kind, program, ps) :
                    kind \in {"list", "dict"}, program \in RingPrograms,
                    ps \in PhaseSettings }
    /\ vm = Absent
    /\ pair = Absent
    /\ game = Absent
    /\ standalone = Absent

\* One pass of the while loop of max_signal.
RingTurn ==
    /\ ring.pc = "loop"
    /\ ~Halted(Comp(ring))
    /\ \E n \in {TurnRun(ring)} :
         /\ n.pc = "idle"
         /\ n.result.type # "Fault"
         /\ ring' = Turned(ring, n)
    /\ UNCHANGED <<vm, pair, game, standalone>>

\* comp.run() raises: the exception leaves max_signal.
RingRunRaises ==
    /\ ring.pc = "loop"
    /\ ~Halted(Comp(ring))
    /\ \E n \in {TurnRun(ring)} :
         /\ n.pc = "idle"
         /\ n.result.type = "Fault"
         /\ ring' = [ring EXCEPT !.computers[ring.current_computer + 1] = n,
                                 !.fed[ring.current_computer + 1] =
                                     Append(@, ring.signal_input),
                                 !.pc = "run_raised"]
    /\ UNCHANGED <<vm, pair, game, standalone>>

\* The loop ends and "thruster_signals[signal_input] = phase_setting" stores the
\* signal (an integer or None).
RingRecord ==
    /\ ring.pc = "loop"
    /\ Halted(Comp(ring))
    /\ ring.signal_input.type # "Outputs"
    /\ ring' = [ring EXCEPT !.pc = "recorded", !.thruster_signal = ring.signal_input]
    /\ UNCHANGED <<vm, pair, game, standalone>>

\* The loop ends with a list in signal_input: a list is no dictionary key and the
\* assignment raises TypeError.
RingRecordRaises ==
    /\ ring.pc = "loop"
    /\ Halted(Comp(ring))
    /\ ring.signal_input.type = "Outputs"
    /\ ring' = [ring EXCEPT !.pc = "record_raised"]
    /\ UNCHANGED <<vm, pair, game, standalone>>

RingNext ==
    \/ RingTurn
    \/ RingRunRaises
    \/ RingRecord
    \/ RingRecordRaises

SpecRing == RingInit /\ [][RingNext]_vars

\* The amplifier whose output amplifier i receives.
Predecessor(i) == IF i = 1 THEN 5 ELSE i - 1

\* The k-th signal amplifier i should receive: 0 to start the first amplifier, else
\* the next value its predecessor emitted.
ExpectedSignal(r, i, k) ==
    IF i = 1 /\ k = 1 THEN ResultOutput(0)
    ELSE IF i = 1
    THEN IF k - 1 <= Len(r.computers[5].emitted)
         THEN ResultOutput(r.computers[5].emitted[k - 1]) ELSE ResultNotRun
    ELSE IF k <= Len(r.computers[i - 1].emitted)
         THEN ResultOutput(r.computers[i - 1].emitted[k]) ELSE ResultNotRun

\* C18 as claimed: every amplifier starts with its phase in the queue; the k-th
\* signal appended to amplifier i is the k-th integer emitted by its predecessor (0
\* for the first signal of the first); the loop ends by recording, as an integer,
\* the last value the fifth amplifier emitted.
C18_Original ==
    ring.present =>
      /\ \A i \in 1..5 :
           /\ ring.computers[i].original_inputs = <<ring.phase_setting[i]>>
           /\ \A k \in 1..Len(ring.fed[i]) :
                ring.fed[i][k] = ExpectedSignal(ring, i, k)
      /\ ring.pc # "record_raised"
      /\ ring.pc = "recorded" =>
           /\ ring.computers[5].emitted # <<>>
           /\ ring.thruster_signal =
                ResultOutput(ring.computers[5].emitted[Len(ring.computers[5].emitted)])

(***************************************************************************)
(* Two instances built by one caller.  The caller holds a program list and *)
(* an inputs list; an instance keeps the inputs list it was given as its   *)
(* original inputs (the object itself, not a copy), and the constructor    *)
(* inserts the phase into that list.                                       *)
(***************************************************************************)
\* Two inputs echoed; a sum written over the first word and emitted.
PairPrograms ==
    { <<3, 9, 3, 10, 4, 9, 4, 10, 99, 0, 0>>,
      <<1101, 3, 4, 0, 4, 0, 99>> }

PairPhases == {NoPhase, Phase(5)}

\* What the caller passes to append_inputs of an instance of a pair.
PairAppendArgs == {<<8>>}

\* IntcodeComputer(program, inputs, amp_phase, return_output=.., gather_output=True)
\* of the dict-backed class, IntcodeComputer(program, inputs, amp_phase,
\* return_output=..) of the list-backed class.
NewInstance(kind, program, inputs, amp_phase, return_output) ==
    IF kind = "dict"
    THEN NewDict(program, inputs, amp_phase, FALSE, return_output, TRUE)
    ELSE NewList(program, inputs, amp_phase, return_output)

\* The caller has built instance a from its inputs list.  shared tells whether the
\* second instance will be built from that same list or from a list of its own with
\* the same initial content.  in_step records that both instances were built with
\* the same arguments and have received the same calls; last names the instance
\* the last call was made on.
NewPair(kind, program, inputs, amp_phase, return_output, shared) ==
    [ present        |-> TRUE,
      shared         |-> shared,
      initial_inputs |-> inputs,
      caller_inputs  |-> InsertPhase(inputs, amp_phase),
      a              |-> NewInstance(kind, program, inputs, amp_phase, return_output),
      b              |-> Absent,
      built          |-> FALSE,
      in_step        |-> TRUE,
      last           |-> "a" ]

\* The second instance is built from the contents of the caller's one list.
SecondList_Same(p) == p.caller_inputs

\* The contents of the list the second instance is built from.
SecondList(p) == IF p.shared THEN p.caller_inputs ELSE p.initial_inputs

\* The first instance after the constructor of the second has run: its original
\* inputs are the caller's list, which the constructor has changed if it is shared.
Aliased(p, amp_phase) ==
    IF p.shared
    THEN [p.a EXCEPT !.original_inputs = InsertPhase(p.caller_inputs, amp_phase)]
    ELSE p.a

\* The program list a dict-backed instance was built from.
PairProgramOf(m) == [k \in 1..Cardinality(DOMAIN m.original_program) |->
                        m.original_program[k - 1]]

\* b = IntcodeComputer(program, inputs, amp_phase, ...)
BuildSecond(p, amp_phase) ==
    [p EXCEPT !.b = NewInstance(p.a.kind,
                                IF p.a.kind = "dict" THEN PairProgramOf(p.a)
                                ELSE p.a.original_program,
                                SecondList(p), amp_phase, p.a.return_output),
              !.a = Aliased(p, amp_phase),
              !.caller_inputs = IF p.shared THEN InsertPhase(@, amp_phase) ELSE @,
              !.built = TRUE,
              !.in_step = p.in_step /\ amp_phase = p.a.amp_phase,
              !.last = "b"]

\* The instances a call on "a", "b" or "both" is made on.
Targets(p) ==
    {"a"} \cup (IF p.built THEN {"b"} ELSE {})
          \cup (IF p.built /\ p.in_step THEN {"both"} ELSE {})

\* The pair after a call that takes instance a to na and instance b to nb.
Called(p, who, na, nb) ==
    [p EXCEPT !.a = IF who \in {"a", "both"} THEN na ELSE p.a,
              !.b = IF who \in {"b", "both"} THEN nb ELSE p.b,
              !.in_step = p.in_step /\ who = "both",
              !.last = who]

\* The instance a call on who reaches first.
Target(p, who) == IF who = "b" THEN p.b ELSE p.a

PairInit ==
    /\ pair \in { NewPair(kind, program, inputs, amp_phase, ro, shared) :
                    kind \in {"dict", "list"}, program \in PairPrograms,
                    inputs \in {<<6>>}, amp_phase \in PairPhases,
                    ro \in {FALSE}, shared \in BOOLEAN }
    /\ vm = Absent
    /\ ring = Absent
    /\ game = Absent
    /\ standalone = Absent

\* The caller builds the second instance.
PairBuild ==
    /\ ~pair.built
    /\ \E amp_phase \in PairPhases : pair' = BuildSecond(pair, amp_phase)
    /\ UNCHANGED <<vm, ring, game, standalone>>

\* The caller calls run() on one instance, or on both one after the other.
PairRun ==
    /\ \E who \in Targets(pair) :
         pair' = Called(pair, who,
                        RunToReturn(pair.a, MaxCallSteps),
                        IF pair.built THEN RunToReturn(pair.b, MaxCallSteps) ELSE pair.b)
    /\ UNCHANGED <<vm, ring, game, standalone>>

\* The caller calls append_inputs.
PairAppend ==
    /\ \E who \in Targets(pair), args \in PairAppendArgs :
         /\ Len(Target(pair, who).inputs) + Len(args) <= MaxQueue
         /\ pair' = Called(pair, who,
                           AppendInputs(pair.a, args),
                           IF pair.built THEN AppendInputs(pair.b, args) ELSE pair.b)
    /\ UNCHANGED <<vm, ring, game, standalone>>

\* The caller calls reset().
PairReset ==
    /\ \E who \in Targets(pair) :
         /\ Target(pair, who).resets < MaxResets
         /\ pair' = Called(pair, who,
                           ResetMachine(pair.a),
                           IF pair.built THEN ResetMachine(pair.b) ELSE pair.b)
    /\ UNCHANGED <<vm, ring, game, standalone>>

PairNext ==
    \/ PairBuild
    \/ PairRun
    \/ PairAppend
    \/ PairReset

SpecPair == PairInit /\ [][PairNext]_vars

\* What the claim lists of an instance: memory, pointer, relative base, input queue
\* and the state its reset() restores.
InstanceState(m) ==
    <<MemoryOf(m), m.pointer, m.relative_base, m.inputs,
      MemoryOf(ResetMachine(m)), ResetMachine(m).inputs>>

\* C15 as claimed: a call on one instance, its construction included, changes
\* nothing of the other instance's state nor of the state the other's reset()
\* restores.
C15_Original ==
    [][ (pair.present /\ pair'.present) =>
          /\ pair'.last = "b" => InstanceState(pair'.a) = InstanceState(pair.a)
          /\ (pair'.last = "a" /\ pair.built) =>
               InstanceState(pair'.b) = InstanceState(pair.b) ]_vars

MultiplyExample == <<1002, 4, 3, 4, 33>>

\* The instance was constructed with this program list.
BuiltFrom(m, program) ==
    m.original_program = (IF m.kind = "dict" THEN Enumerate(program) ELSE program)

(***************************************************************************)
(* C21.  Program [1002,4,3,4,33]: a run() at pointer 0 executes one        *)
(* instruction, the multiplication of the word at address 4 (33, position  *)
(* mode) by 3 (immediate mode); it leaves 99 at address 4, the other words *)
(* unchanged and the pointer at 4.  The next pass of the loop finds the    *)
(* machine halted on the word just written and run() returns without       *)
(* executing anything else.  The pointer is never anywhere but 0 or 4.     *)
(***************************************************************************)
C21_MultiplyExample ==
    /\ [](BuiltFrom(vm, MultiplyExample) => vm.pointer \in {0, 4})
    /\ [][ (BuiltFrom(vm, MultiplyExample) /\ vm.pc = "running") =>
             IF vm.pointer = 0
             THEN /\ vm'.pc = "running"
                  /\ vm'.steps = vm.steps + 1
                  /\ vm'.pointer = 4
                  /\ WordAt(vm', 4) = 99
                  /\ \A a \in 0..3 : WordAt(vm', a) = MultiplyExample[a + 1]
             ELSE /\ ReturnedHalt(vm')
                  /\ vm'.steps = vm.steps
                  /\ vm'.pointer = 4
                  /\ MemoryOf(vm') = MemoryOf(vm) ]_vars

\* run() of a never reset instance built from the example has returned at the halt
\* after one instruction, with 99 at address 4.
C21_Witness ==
    /\ BuiltFrom(vm, MultiplyExample)
    /\ vm.resets = 0
    /\ ReturnedHalt(vm)
    /\ vm.steps = 1
    /\ vm.pointer = 4
    /\ WordAt(vm, 4) = 99

(***************************************************************************)
(* The decoder.                                                            *)
(***************************************************************************)
\* The number of parameters the handler of a code asks _param_val_and_mode for.
ParamQty(code) ==
    IF code \in {1, 2, 7, 8} THEN 3 ELSE IF code \in {5, 6} THEN 2 ELSE 1

\* The mode of parameter i as the specification reads it off the word: 1 -> hundreds,
\* 2 -> thousands, 3 -> ten-thousands digit.
ModeDigit(w, i) ==
    CASE i = 1 -> (w \div 100) % 10
      [] i = 2 -> (w \div 1000) % 10
      [] i = 3 -> (w \div 10000) % 10

\* The parameter words of the instruction at the pointer are all in the program.
ParametersPresent(m, n) ==
    Parameters(m, n).err = NoError /\ Len(Parameters(m, n).list) = n

\* C22 as claimed: whatever instruction word (w >= 0, low two digits in 1..9, its
\* parameter words in memory) the loop is in front of, the handler obtains its
\* parameters with one mode each, the hundreds, thousands and ten-thousands digit of
\* w in parameter order, 0 for a digit w does not have.
C22_Original ==
    ( /\ vm.pc = "running"
      /\ ValueRaises(vm).kind = "none"
      /\ Value(vm) >= 0
      /\ (Value(vm) % 100) \in 1..9 ) =>
      \A n \in {ParamQty(Value(vm) % 100)} :
        ParametersPresent(vm, n) =>
          /\ ParamValAndMode(vm, n).err = NoError
          /\ Len(ParamValAndMode(vm, n).tuple) = 2 * n
          /\ \A i \in 1..n :
               ParamValAndMode(vm, n).tuple[n + i] = ModeDigit(Value(vm), i)

(***************************************************************************)
(* The instruction pointer.                                                *)
(***************************************************************************)
\* The opcode of the specification: the low two decimal digits of the word at the
\* pointer.
Opcode(m) == WordAt(m, m.pointer) % 100

\* The value of source parameter i of the instruction at the pointer.
SourceOperand(m, i) ==
    ValueForMode(m, WordAt(m, m.pointer + i), ModeDigit(WordAt(m, m.pointer), i)).value

\* The pointer the specification prescribes after the instruction at the pointer of m
\* has completed; for a word that is no instruction the pointer stays.
PointerAfter(m) ==
    CASE Opcode(m) \in {1, 2, 7, 8} -> m.pointer + 4
      [] Opcode(m) \in {3, 4, 9} -> m.pointer + 2
      [] Opcode(m) = 5 ->
           IF SourceOperand(m, 1) # 0 THEN SourceOperand(m, 2) ELSE m.pointer + 3
      [] Opcode(m) = 6 ->
           IF SourceOperand(m, 1) = 0 THEN SourceOperand(m, 2) ELSE m.pointer + 3
      [] OTHER -> m.pointer

\* C23 as claimed: the pointer changes only when an instruction completes, and then
\* as the opcode (the low two digits of the word) prescribes: by 4 after 1, 2, 7, 8,
\* by 2 after 3, 4, 9, to the second operand or by 3 after 5 and 6.  A pass of the
\* loop that faults or suspends, and a call that executes nothing, leave it alone.
C23_Original ==
    [][ vm'.resets = vm.resets =>
          IF vm'.steps = vm.steps + 1
          THEN vm'.pointer = PointerAfter(vm)
          ELSE vm'.pointer = vm.pointer ]_vars

(***************************************************************************)
(* The relative base.                                                      *)
(***************************************************************************)
\* Parameter words the resolution of a relative-mode parameter is compared on.
ParamVals == -2..2

\* C25 as claimed: the relative base changes only when an instruction of opcode 9
\* completes, which adds its operand to it; and whatever the base k is, a relative
\* parameter p is read and written at the address position parameter k + p is read
\* and written at: the output instruction 204 emits the word position k + p holds,
\* the input instruction 203 stores where position k + p stores.
C25_Original ==
    /\ [](\A p \in ParamVals :
            /\ ValueForMode(vm, p, 2) = ValueForMode(vm, vm.relative_base + p, 0)
            /\ StoreInMemory(vm, p, 2, 7) =
                 StoreInMemory(vm, vm.relative_base + p, 0, 7))
    /\ [][ /\ vm'.relative_base # vm.relative_base =>
                (vm'.steps = vm.steps + 1 /\ Opcode(vm) = 9)
           /\ (vm'.steps = vm.steps + 1 /\ Opcode(vm) = 9) =>
                vm'.relative_base = vm.relative_base + SourceOperand(vm, 1)
           /\ (vm'.steps = vm.steps + 1 /\ WordAt(vm, vm.pointer) = 204) =>
                vm'.emitted[Len(vm'.emitted)] =
                  ValueForMode(vm, vm.relative_base + WordAt(vm, vm.pointer + 1), 0).value
           /\ (vm'.steps = vm.steps + 1 /\ WordAt(vm, vm.pointer) = 203) =>
                MemoryOf(vm') =
                  MemoryOf(StoreInMemory(vm, vm.relative_base + WordAt(vm, vm.pointer + 1),
                                         0, Head(vm.inputs)).m) ]_vars

\* C26 as claimed: the engine never executes an instruction handler for a word whose
\* low two decimal digits are outside 01..09.
C26_Original ==
    [][ vm'.steps = vm.steps + 1 =>
          (WordAt(vm, vm.pointer) >= 0 /\ Opcode(vm) \in 1..9) ]_vars

(***************************************************************************)
(* reset() and a new instance.                                             *)
(***************************************************************************)
\* A new instance built from the program and the initial inputs of m, with the
\* options of m.
Fresh(m) ==
    IF m.kind = "dict"
    THEN NewDict(PairProgramOf(m), m.original_inputs, NoPhase,
                 m.return_before_input, m.return_output, m.gather_output)
    ELSE NewList(m.original_program, m.original_inputs, NoPhase, m.return_output)

\* Two run() calls have returned the same result and left the same memory and
\* pointer.
SameRun(m, n) ==
    /\ m.pc = n.pc
    /\ m.result = n.result
    /\ MemoryOf(m) = MemoryOf(n)
    /\ m.pointer = n.pointer

\* C28 as claimed: the run() call that follows reset() returns what the first run()
\* of a new instance built from the same program and initial inputs returns, and
\* leaves the same memory and pointer.
C28_Original ==
    [][ vm'.resets = vm.resets + 1 =>
          SameRun(RunToReturn(vm', vm'.steps + MaxCallSteps),
                  RunToReturn(Fresh(vm'), MaxCallSteps)) ]_vars

(***************************************************************************)
(* Two instances run side by side: the same instruction with an operand in *)
(* position and in immediate mode, and the same program on the two         *)
(* classes.  The caller makes its run() and append_inputs calls on one of  *)
(* them or on both, as for a pair.                                         *)
(***************************************************************************)
\* Operand values.
OperandVals == {-3, 0, 4}

\* The instruction of opcode code with both operands in position mode, reading cells
\* 5 and 6, which hold x and y; the destination is cell 7.
ByPosition(code, x, y) == <<code, 5, 6, 7, 99, x, y, 0>>

\* The same instruction with the first operand (which = 1), the second (2) or both
\* (3) supplied in immediate mode.
ByImmediate(code, x, y, which) ==
    CASE which = 1 -> <<100 + code, x, 6, 7, 99, x, y, 0>>
      [] which = 2 -> <<1000 + code, 5, y, 7, 99, x, y, 0>>
      [] which = 3 -> <<1100 + code, x, y, 7, 99, x, y, 0>>

\* Two instances a and b, both built, each from arguments of its own.
NewTwin(a, b) ==
    [ present        |-> TRUE,
      shared         |-> FALSE,
      initial_inputs |-> <<>>,
      caller_inputs  |-> <<>>,
      a              |-> a,
      b              |-> b,
      built          |-> TRUE,
      in_step        |-> TRUE,
      last           |-> "both" ]

ModesInit ==
    /\ pair \in { NewTwin(NewInstance(kind, ByPosition(code, x, y), <<>>, NoPhase, ro),
                          NewInstance(kind, ByImmediate(code, x, y, which), <<>>,
                                      NoPhase, ro)) :
                    kind \in {"dict", "list"}, code \in {1, 2, 7, 8},
                    x \in OperandVals, y \in OperandVals, which \in 1..3,
                    ro \in BOOLEAN }
    /\ vm = Absent
    /\ ring = Absent
    /\ game = Absent
    /\ standalone = Absent

TwinNext ==
    \/ PairRun
    \/ PairAppend

SpecModes == ModesInit /\ [][TwinNext]_vars

(***************************************************************************)
(* C24.  Addressing-mode equivalence: for opcodes 1, 2, 7 and 8 and every  *)
(* operand value, the instruction with an operand (the first, the second   *)
(* or both) supplied in immediate mode stores at the destination what the  *)
(* instruction stores with the operand in position mode pointing at a cell *)
(* that holds the value; the pointer and the other cells end up the same   *)
(* as well.                                                                *)
(***************************************************************************)
C24_ModeEquivalence ==
    (pair.present /\ pair.a.steps = 1 /\ pair.b.steps = 1) =>
      /\ WordAt(pair.a, 7) = WordAt(pair.b, 7)
      /\ WordAt(pair.a, 7) =
           Arith(WordAt(pair.a, 0), WordAt(pair.a, 5), WordAt(pair.a, 6))
      /\ \A addr \in 4..6 : WordAt(pair.a, addr) = WordAt(pair.b, addr)
      /\ pair.a.pointer = 4
      /\ pair.b.pointer = 4

\* The less-than instruction has stored 1 in both instances: -3 < 4 with the operands
\* read from cells 5 and 6 in one and given as literals in the other.
C24_Witness ==
    /\ pair.present
    /\ pair.in_step
    /\ WordAt(pair.a, 0) = 7
    /\ WordAt(pair.b, 0) = 1107
    /\ WordAt(pair.b, 1) = -3
    /\ WordAt(pair.b, 2) = 4
    /\ ReturnedHalt(pair.a)
    /\ ReturnedHalt(pair.b)
    /\ WordAt(pair.a, 7) = 1
    /\ WordAt(pair.b, 7) = 1

(***************************************************************************)
(* The two classes side by side.                                           *)
(***************************************************************************)
\* (inputs, amp_phase) the two classes are built with.
TwinArgs == { <<<<>>, NoPhase>>, <<<<6>>, NoPhase>>, <<<<6>>, Phase(5)>> }

\* The same program, inputs, phase and return_output given to the dict-backed class
\* (return_before_input off, gathering its outputs as the list-backed class always
\* does) and to the list-backed class.
ClassesInit ==
    /\ pair \in { NewTwin(NewDict(p, args[1], args[2], FALSE, ro, TRUE),
                          NewList(p, args[1], args[2], ro)) :
                    p \in Programs, args \in TwinArgs, ro \in BOOLEAN }
    /\ vm = Absent
    /\ ring = Absent
    /\ game = Absent
    /\ standalone = Absent

SpecClasses == ClassesInit /\ [][TwinNext]_vars

\* Addresses the memories of two instances are compared at.
Addresses == -2..16

\* The word the memory of m holds at addr, 0 for a cell never written.
MemoryWord(m, addr) ==
    IF m.kind = "dict" THEN DictGet(m.memory, addr)
    ELSE IF 0 <= addr /\ addr < Len(m.program) THEN m.program[addr + 1]
    ELSE DictGet(m.extra_memory, addr)

\* C27 as claimed: given the same calls, the two classes return the same results
\* from run(), fault at the same call, and hold the same memory contents, pointer
\* and relative base.
C27_Original ==
    (pair.present /\ pair.in_step) =>
      /\ pair.a.result.type = pair.b.result.type
      /\ pair.a.result.value = pair.b.result.value
      /\ pair.a.result.list = pair.b.result.list
      /\ pair.a.pointer = pair.b.pointer
      /\ pair.a.relative_base = pair.b.relative_base
      /\ \A addr \in Addresses : MemoryWord(pair.a, addr) = MemoryWord(pair.b, addr)


(***************************************************************************)
(* execute_intcode, the loop of the first solution of day 5: a function    *)
(* over a copy of the program, with no class, no relative base and no      *)
(* memory beyond the program.                                              *)
(***************************************************************************)
\* The passes of the loop a behaviour follows.
MaxIterations == 6

\* program = intcode_program[:]; pointer = 0
NewStandalone(program) ==
    [present    |-> TRUE,
     program    |-> program,
     pointer    |-> 0,
     pc         |-> "loop",
     printed    |-> <<>>,
     iterations |-> 0,
     err        |-> NoError]

\* int(str(word)[-2::1]): the last two characters of the decimal text, which
\* for the words -9..-1 are the sign and the digit.
LastTwoChars(word) ==
    IF word >= 0 THEN word % 100
    ELSE IF word > -10 THEN word
    ELSE (-word) % 100

\* An exception leaves execute_intcode.
Fault(s, err) == [s EXCEPT !.pc = "raised", !.err = err]

\* PARAM_MODE[mode](program, param): getitem for 0, the parameter for 1, and no
\* entry for any other mode.
ParamMode(program, mode, param) ==
    IF mode = 1 THEN [err |-> NoError, value |-> param]
    ELSE IF mode # 0 THEN [err |-> Raise("KeyError", "mode", mode), value |-> 0]
    ELSE IF PyIndexOK(program, param)
    THEN [err |-> NoError, value |-> PyIndex(program, param)]
    ELSE [err |-> Raise("IndexError", "read", param), value |-> 0]

\* param_val_and_mode(program, pointer, parameters_qty) and the unpacking of
\* its result.
StandaloneParams(s, qty) ==
    Unpack([err |-> NoError, list |-> PySlice(s.program, s.pointer + 1, s.pointer + qty + 1)],
           ParametersMode(PyIndex(s.program, s.pointer), qty), qty)

\* program[index] = value; pointer += width
SetItem(s, index, value, width) ==
    IF PyIndexOK(s.program, index)
    THEN [s EXCEPT !.program = PySetItem(s.program, index, value),
                   !.pointer = s.pointer + width]
    ELSE Fault(s, Raise("IndexError", "write", index))

StandaloneOperands(s, code, d, r1, r2) ==
    IF r1.err.kind # "none" THEN Fault(s, r1.err)
    ELSE IF r2.err.kind # "none" THEN Fault(s, r2.err)
    ELSE IF code \in {5, 6}
    THEN [s EXCEPT !.pointer = IF JumpTaken(code, r1.value) THEN r2.value
                                ELSE s.pointer + 3]
    ELSE SetItem(s, d.tuple[3], Arith(code, r1.value, r2.value), 4)

\* The branches "code in {1, 2, 7, 8}" and "code in {5, 6}".
StandaloneTwoOperands(s, code, d, qty) ==
    IF d.err.kind # "none" THEN Fault(s, d.err)
    ELSE StandaloneOperands(s, code, d,
                            ParamMode(s.program, d.tuple[qty + 1], d.tuple[1]),
                            ParamMode(s.program, d.tuple[qty + 2], d.tuple[2]))

StandaloneOutput(s, r) ==
    IF r.err.kind # "none" THEN Fault(s, r.err)
    ELSE [s EXCEPT !.printed = Append(s.printed, r.value), !.pointer = s.pointer + 2]

\* The branch "code in {3, 4}"; typed is the integer read from the terminal.
StandaloneInputOutput(s, code, d, typed) ==
    IF d.err.kind # "none" THEN Fault(s, d.err)
    ELSE IF code = 3 THEN SetItem(s, d.tuple[1], typed, 2)
    ELSE StandaloneOutput(s, ParamMode(s.program, d.tuple[2], d.tuple[1]))

\* The body of the while loop for the code decoded by its condition.  It has
\* no branch for any other code: the body does nothing and the loop goes round.
LoopBody(s, code, typed) ==
    IF code \in {1, 2, 7, 8} THEN StandaloneTwoOperands(s, code, StandaloneParams(s, 3), 3)
    ELSE IF code \in {3, 4} THEN StandaloneInputOutput(s, code, StandaloneParams(s, 1), typed)
    ELSE IF code \in {5, 6} THEN StandaloneTwoOperands(s, code, StandaloneParams(s, 2), 2)
    ELSE s

\* One evaluation of the loop condition and, unless the code is 99, of the body.
LoopPass(s, typed) ==
    IF ~PyIndexOK(s.program, s.pointer)
    THEN Fault(s, Raise("IndexError", "fetch", s.pointer))
    ELSE IF LastTwoChars(PyIndex(s.program, s.pointer)) = 99
    THEN [s EXCEPT !.pc = "done"]
    ELSE LoopBody(s, LastTwoChars(PyIndex(s.program, s.pointer)), typed)

StandaloneInit ==
    /\ standalone \in {NewStandalone(p) : p \in Programs}
    /\ vm = Absent
    /\ pair = Absent
    /\ ring = Absent
    /\ game = Absent

\* The loop goes round once more.
ExecuteIntcodeIterate ==
    /\ standalone.present
    /\ standalone.pc = "loop"
    /\ standalone.iterations < MaxIterations
    /\ \E typed \in InputVals :
          /\ LoopPass(standalone, typed).pc = "loop"
          /\ standalone' = [LoopPass(standalone, typed) EXCEPT
                               !.iterations = standalone.iterations + 1]
    /\ UNCHANGED <<vm, pair, ring, game>>

\* The condition finds code 99 and execute_intcode returns.
ExecuteIntcodeHalt ==
    /\ standalone.present
    /\ standalone.pc = "loop"
    /\ LoopPass(standalone, 0).pc = "done"
    /\ standalone' = LoopPass(standalone, 0)
    /\ UNCHANGED <<vm, pair, ring, game>>

\* The condition or the body raises.
ExecuteIntcodeRaise ==
    /\ standalone.present
    /\ standalone.pc = "loop"
    /\ LoopPass(standalone, 0).pc = "raised"
    /\ standalone' = LoopPass(standalone, 0)
    /\ UNCHANGED <<vm, pair, ring, game>>

StandaloneNext == ExecuteIntcodeIterate \/ ExecuteIntcodeHalt \/ ExecuteIntcodeRaise

SpecStandalone == StandaloneInit /\ [][StandaloneNext]_vars

\* C30: whenever the code decoded at the pointer of the standalone loop is none
\* of 1..8 and 99, the loop stops with a fault; it does not go round with the
\* pointer and the program as they were.
C30_Original ==
    [][ (/\ standalone.present
         /\ standalone.pc = "loop"
         /\ PyIndexOK(standalone.program, standalone.pointer)
         /\ LastTwoChars(PyIndex(standalone.program, standalone.pointer))
               \notin (1..8) \cup {99})
        => standalone'.pc = "raised" ]_vars


(***************************************************************************)
(* play: the host loop of the arcade game of day 13.  It builds one        *)
(* computer with return_output and return_before_input, reads its outputs  *)
(* three at a time and answers a suspension with one joystick value.       *)
(***************************************************************************)
\* The instructions the computer of a game executes in a behaviour.
MaxGameSteps == 40

\* A game whose ball stays at column bx and whose paddle starts at column px:
\* it paints both, reads the joystick, moves the paddle by it, reads the
\* joystick again, reports that value as the score and clears it before it halts.
ArcadeGame(bx, px) ==
    <<4, 43, 104, 0, 104, 4,
      4, 44, 104, 1, 104, 3,
      3, 45,
      4, 44, 104, 1, 104, 0,
      1, 44, 45, 44,
      4, 44, 104, 1, 104, 3,
      3, 45,
      104, -1, 104, 0, 4, 45,
      1101, 0, 0, 45,
      99, bx, px, 0>>

\* Programs play cannot finish: input asked for before anything is painted,
\* input asked for inside a triple, a ball without a paddle, and an input
\* instruction that cannot be decoded.
BrokenGames ==
    { <<3, 0, 99>>,
      <<104, 1, 3, 0, 99>>,
      <<104, 0, 104, 0, 104, 4, 3, 0, 99>>,
      <<104, 0, 104, 0, 104, 4, 104, 0, 104, 1, 104, 3, 11003, 0, 99>>,
      <<104, 0, 104, 0, 104, 4, 1105, 1, 20>> }

GamePrograms == {ArcadeGame(bx, px) : bx \in 0..2, px \in 0..2} \cup BrokenGames

\* The locals of play before its loop.
NewGame(program) ==
    [present       |-> TRUE,
     computer      |-> NewDict(program, <<>>, NoPhase, TRUE, TRUE, FALSE),
     current_score |-> ResultOutput(0),
     game_tiles    |-> <<>>,
     output        |-> ResultNotRun,
     x             |-> ResultNotRun,
     y             |-> ResultNotRun,
     tile_id       |-> ResultNotRun,
     appended      |-> <<>>,
     pc            |-> "run_output",
     err           |-> NoError]

\* values.index(tile): the first entry of game_tiles holding the tile, 0 for none.
TileIndex(game_tiles, tile) ==
    IF \E i \in DOMAIN game_tiles : game_tiles[i].tile_id = ResultOutput(tile)
    THEN SetMin({i \in DOMAIN game_tiles : game_tiles[i].tile_id = ResultOutput(tile)})
    ELSE 0

\* ball_and_paddle_x(game_tiles), followed by the comparison of the two columns,
\* which raises unless both are integers.
BallAndPaddleX(game_tiles) ==
    IF TileIndex(game_tiles, 4) = 0
    THEN [err |-> Raise("ValueError", "index", 4), bx |-> 0, px |-> 0]
    ELSE IF TileIndex(game_tiles, 3) = 0
    THEN [err |-> Raise("ValueError", "index", 3), bx |-> 0, px |-> 0]
    ELSE IF \/ game_tiles[TileIndex(game_tiles, 4)].x.type # "Output"
            \/ game_tiles[TileIndex(game_tiles, 3)].x.type # "Output"
    THEN [err |-> Raise("TypeError", "compare", 0), bx |-> 0, px |-> 0]
    ELSE [err |-> NoError,
          bx  |-> game_tiles[TileIndex(game_tiles, 4)].x.value,
          px  |-> game_tiles[TileIndex(game_tiles, 3)].x.value]

\* The joystick tilted away from the ball.
Joystick_Reversed(bx, px) == IF bx < px THEN 1 ELSE IF bx > px THEN -1 ELSE 0

\* -1 if bx < px else 1 if bx > px else 0
Joystick(bx, px) == IF bx < px THEN -1 ELSE IF bx > px THEN 1 ELSE 0

\* game_tiles[(x, y)] = tile_id: a key already present keeps its place.
SetTile(game_tiles, x, y, tile_id) ==
    IF \E i \in DOMAIN game_tiles : game_tiles[i].x = x /\ game_tiles[i].y = y
    THEN [i \in DOMAIN game_tiles |->
            IF game_tiles[i].x = x /\ game_tiles[i].y = y
            THEN [x |-> x, y |-> y, tile_id |-> tile_id] ELSE game_tiles[i]]
    ELSE Append(game_tiles, [x |-> x, y |-> y, tile_id |-> tile_id])

\* The assignment of what computer.run() returned, n being the computer after
\* the call.
GameRan(g, n) ==
    IF n.result.type = "Fault"
    THEN [g EXCEPT !.computer = n, !.pc = "raised", !.err = n.result.err]
    ELSE CASE g.pc = "run_output" ->
                IF n.result.type = "Sentinel"
                THEN [g EXCEPT !.computer = n, !.output = n.result, !.pc = "append"]
                ELSE [g EXCEPT !.computer = n, !.output = n.result, !.x = n.result,
                               !.pc = "run_y"]
           [] g.pc = "run_x" -> [g EXCEPT !.computer = n, !.x = n.result, !.pc = "run_y"]
           [] g.pc = "run_y" -> [g EXCEPT !.computer = n, !.y = n.result, !.pc = "run_tile"]
           [] g.pc = "run_tile" ->
                [g EXCEPT !.computer = n, !.tile_id = n.result, !.pc = "check"]

\* computer.append_inputs(-1 if bx < px else 1 if bx > px else 0)
GameAppended(g, bp) ==
    IF bp.err.kind # "none" THEN [g EXCEPT !.pc = "raised", !.err = bp.err]
    ELSE [g EXCEPT !.computer = AppendInputs(g.computer, <<Joystick(bp.bx, bp.px)>>),
                   !.appended = Append(g.appended, Joystick(bp.bx, bp.px)),
                   !.pc = "run_x"]

\* The statements after the third run() of a pass.
GameChecked(g) ==
    IF ValueRaises(g.computer).kind # "none"
    THEN [g EXCEPT !.pc = "raised", !.err = ValueRaises(g.computer)]
    ELSE IF Halted(g.computer) THEN [g EXCEPT !.pc = "returned"]
    ELSE IF g.x = ResultOutput(-1) /\ g.y = ResultOutput(0)
    THEN [g EXCEPT !.current_score = g.tile_id, !.pc = "run_output"]
    ELSE [g EXCEPT !.game_tiles = SetTile(g.game_tiles, g.x, g.y, g.tile_id),
                   !.pc = "run_output"]

\* The next statement of play.
PlayStep(g) ==
    IF g.pc = "append" THEN GameAppended(g, BallAndPaddleX(g.game_tiles))
    ELSE IF g.pc = "check" THEN GameChecked(g)
    ELSE GameRan(g, RunToReturn(g.computer, MaxGameSteps))

GameInit ==
    /\ game \in {NewGame(p) : p \in GamePrograms}
    /\ vm = Absent
    /\ pair = Absent
    /\ ring = Absent
    /\ standalone = Absent

\* A statement of play that calls run(), the call having returned.
Returned(g) ==
    /\ g.present
    /\ g.pc \in {"run_output", "run_x", "run_y", "run_tile"}
    /\ RunToReturn(g.computer, MaxGameSteps).pc = "idle"

\* output = computer.run()
PlayRunOutput ==
    /\ Returned(game)
    /\ game.pc = "run_output"
    /\ PlayStep(game).pc # "raised"
    /\ game' = PlayStep(game)
    /\ UNCHANGED <<vm, pair, ring, standalone>>

\* bx, px = ball_and_paddle_x(game_tiles); computer.append_inputs(...)
PlayAppendInputs ==
    /\ game.present
    /\ game.pc = "append"
    /\ PlayStep(game).pc # "raised"
    /\ game' = PlayStep(game)
    /\ UNCHANGED <<vm, pair, ring, standalone>>

\* x = computer.run()
PlayRunX ==
    /\ Returned(game)
    /\ game.pc = "run_x"
    /\ PlayStep(game).pc # "raised"
    /\ game' = PlayStep(game)
    /\ UNCHANGED <<vm, pair, ring, standalone>>

\* y = computer.run()
PlayRunY ==
    /\ Returned(game)
    /\ game.pc = "run_y"
    /\ PlayStep(game).pc # "raised"
    /\ game' = PlayStep(game)
    /\ UNCHANGED <<vm, pair, ring, standalone>>

\* tile_id = computer.run()
PlayRunTile ==
    /\ Returned(game)
    /\ game.pc = "run_tile"
    /\ PlayStep(game).pc # "raised"
    /\ game' = PlayStep(game)
    /\ UNCHANGED <<vm, pair, ring, standalone>>

\* if computer.halted(): break
PlayBreak ==
    /\ game.present
    /\ game.pc = "check"
    /\ PlayStep(game).pc = "returned"
    /\ game' = PlayStep(game)
    /\ UNCHANGED <<vm, pair, ring, standalone>>

\* current_score = tile_id, or game_tiles[(x, y)] = tile_id
PlayRecord ==
    /\ game.present
    /\ game.pc = "check"
    /\ PlayStep(game).pc = "run_output"
    /\ game' = PlayStep(game)
    /\ UNCHANGED <<vm, pair, ring, standalone>>

\* An exception leaves play: out of run(), of ball_and_paddle_x or of halted().
PlayRaises ==
    /\ game.present
    /\ game.pc \in {"append", "check"} \/ Returned(game)
    /\ PlayStep(game).pc = "raised"
    /\ game' = PlayStep(game)
    /\ UNCHANGED <<vm, pair, ring, standalone>>

GameNext ==
    \/ PlayRunOutput
    \/ PlayAppendInputs
    \/ PlayRunX
    \/ PlayRunY
    \/ PlayRunTile
    \/ PlayBreak
    \/ PlayRecord
    \/ PlayRaises

SpecGame == GameInit /\ [][GameNext]_vars

\* A column of a tile on the screen, the tile being a ball (4) or a paddle (3).
Columns(g, tile) ==
    {g.game_tiles[i].x.value : i \in {j \in DOMAIN g.game_tiles :
                                         g.game_tiles[j].tile_id = ResultOutput(tile)}}

\* C29: in play the input queue of the computer never holds more than one entry;
\* a sentinel returned by the run() that starts a triple is answered by appending
\* exactly one value to the empty queue, -1, 1 or 0 as the ball is left of, right
\* of or above the paddle; the run() that follows consumes it; nothing else
\* appends.
C29_OneJoystickValue ==
    /\ [](game.present => Len(game.computer.inputs) <= 1)
    /\ [][ /\ (game.pc = "run_output" /\ game'.output = ResultSentinel
                  /\ game'.pc # "raised")
             => (game'.pc = "append" /\ game'.computer.inputs = <<>>)
           /\ (game.pc = "append" /\ game'.pc # "raised")
             => /\ game'.pc = "run_x"
                /\ game.computer.inputs = <<>>
                /\ Len(game'.computer.inputs) = 1
                /\ game'.appended = Append(game.appended, game'.computer.inputs[1])
                /\ \E bx \in Columns(game, 4) : \E px \in Columns(game, 3) :
                      /\ bx < px => game'.computer.inputs[1] = -1
                      /\ bx > px => game'.computer.inputs[1] = 1
                      /\ bx = px => game'.computer.inputs[1] = 0
           /\ (game.pc = "run_x" /\ game'.pc # "raised")
             => /\ game.computer.inputs # <<>>
                /\ game'.computer.inputs = <<>>
                /\ game'.computer.steps > game.computer.steps
                /\ WordAt(Iteration([game.computer EXCEPT !.pc = "running"]),
                          WordAt(game.computer, game.computer.pointer + 1))
                     = game.computer.inputs[1]
           /\ game.pc # "append"
             => /\ game'.appended = game.appended
                /\ Len(game'.computer.inputs) <= Len(game.computer.inputs)
       ]_vars

\* The ball two columns left of the paddle: play has answered two suspensions
\* with -1, the paddle still being right of the ball at the second; both values
\* were consumed, and play returned with the score the game reported.
C29_Witness ==
    /\ game.present
    /\ game.pc = "returned"
    /\ game.appended = <<-1, -1>>
    /\ game.computer.inputs = <<>>
    /\ WordAt(game.computer, 43) = 0
    /\ WordAt(game.computer, 44) = 1
    /\ game.current_score = ResultOutput(-1)
    /\ Len(game.game_tiles) = 3
====
